---- MODULE Spec2Model ----
(***************************************************************************)
(* Model of segmentation/process_img_for_unity.py (and the archived        *)
(* scripts next to it): the per-instance background classifier, the        *)
(* polygon simplifier and the contour exporter.                            *)
(*                                                                         *)
(* Rasters are sets of foreground pixels <<x, y>> on a w x h grid.         *)
(* Fractions (area_frac, border_touch_frac, hole_frac and the thresholds   *)
(* they are compared with) are exact rationals <<num, den>>, den > 0.      *)
(* The module-level "USER SETTINGS" of the script are the record cfg: the  *)
(* model draws them once, before a run, from values scaled to the small    *)
(* rasters it enumerates.                                                  *)
(***************************************************************************)
EXTENDS Integers, Sequences, FiniteSets, TLC

VARIABLES
    cfg,        \* the USER SETTINGS globals of the script
    pc,         \* position of the run
    img,        \* [w, h]: raster dimensions of the mask being classified
    mask,       \* mask01: set of foreground pixels
    cls,        \* (is_bg, reason, stats) returned by is_background_like
    poly_xy,    \* the point sequence handed to simplify_polygon
    out,        \* what the function under call returned: the point sequence of
                \* simplify_polygon, the rasters of _morph_clean
    script,     \* which script runs: "new" (process_img_for_unity.py) or
                \* "old" (archive/process_img_for_unity_old.py)
    res0_masks, \* "None" when the model detected nothing, else "array"
    masks,      \* main: the masks array, one record per instance
    loop_i,     \* main: index i of the classification loop (1-based)
    kept_masks,     \* main: kept_masks
    dropped_masks,  \* main: dropped_masks
    exp,        \* the locals of export_contours_from_masks / export_contours
    payload,    \* what was written to objects_contour.json, <<>> if nothing
    ret         \* what the export function returned, <<>> before it returns

clsvars == <<img, mask, cls>>
simpvars == <<poly_xy, out>>
runvars == <<script, res0_masks, masks, loop_i, kept_masks, dropped_masks, exp, payload, ret>>
vars == <<cfg, pc, img, mask, cls, poly_xy, out,
          script, res0_masks, masks, loop_i, kept_masks, dropped_masks, exp, payload, ret>>

None == "none"

\* ------------------------------------------------------------------ bounds
MaxPixels == 9          \* rasters of every shape w x h with w * h <= MaxPixels
MaxRingSide == 9        \* largest raster side of the thin-ring masks
MaxLen == 4             \* longest point sequence handed to simplify_polygon
MaxCoord2 == 2          \* largest x coordinate, in half pixels
MaxMasks == 2           \* most masks the segmentation model returns
MaxContours == 2        \* most contours cv2.findContours finds in one raster
MaxContourLen == 5      \* most points of one contour
MaxResampleLen == 12    \* most points of a sequence whose resampling indices are examined

\* --------------------------------------------------------------- fractions
Frac(n, d) == <<n, d>>
FracGeq(a, b) == a[1] * b[2] >= b[1] * a[2]
FracInUnit(a) == a[2] > 0 /\ 0 <= a[1] /\ a[1] <= a[2]

\* ----------------------------------------------------------------- rasters
Pixels(w, h) == (0 .. (w - 1)) \X (0 .. (h - 1))

Abs(n) == IF n < 0 THEN -n ELSE n

\* p and q are neighbours under 4- or 8-connectivity
Adjacent(p, q, conn) ==
    LET dx == Abs(p[1] - q[1])
        dy == Abs(p[2] - q[2])
    IN  IF conn = 4 THEN dx + dy = 1 ELSE (dx <= 1 /\ dy <= 1 /\ dx + dy >= 1)

\* the pixels of S connected to region through S
RECURSIVE Grow(_, _, _)
Grow(region, S, conn) ==
    LET next == region \cup {p \in S : \E q \in region : Adjacent(p, q, conn)}
    IN  IF next = region THEN region ELSE Grow(next, S, conn)

\* cv2.floodFill(ff, flood_mask, seed, 0): ff is the set of non-zero pixels.
\* The fill covers the 4-connected region of pixels whose value equals the
\* seed's and writes 0 there: a non-zero seed clears its region, a zero seed
\* rewrites zeros with zero.
floodFill(ff, seed) ==
    IF seed \in ff THEN ff \ Grow({seed}, ff, 4) ELSE ff

\* cv2.connectedComponentsWithStats(holes, connectivity=8): the components
RECURSIVE connectedComponents(_)
connectedComponents(S) ==
    IF S = {} THEN {}
    ELSE LET p == CHOOSE q \in S : TRUE
             c == Grow({p}, S, 8)
         IN  {c} \cup connectedComponents(S \ c)

Max2(a, b) == IF a >= b THEN a ELSE b

\* MutBorderTouchAll: the band counted over the raster instead of the mask
MutBorderTouchAll(m, w, h, band_px) ==
    LET b == Max2(1, band_px)
    IN  Cardinality({p \in Pixels(w, h) : p[2] < b \/ p[2] >= h - b
                                          \/ p[1] < b \/ p[1] >= w - b})

\* number of mask pixels inside the border band (touch in border_touch_frac)
border_touch(m, w, h, band_px) ==
    LET b == Max2(1, band_px)
    IN  Cardinality({p \in m : p[2] < b \/ p[2] >= h - b
                                \/ p[1] < b \/ p[1] >= w - b})

\* count / total, and 0.0 for an empty mask (if total <= 1e-9: return 0.0)
ratio_or_zero(count, total) == IF total = 0 THEN Frac(0, 1) ELSE Frac(count, total)

border_touch_frac(m, w, h, band_px) ==
    ratio_or_zero(border_touch(m, w, h, band_px), Cardinality(m))

\* holes_big of hole_frac: the pixels counted as hole area
holes_big(m, w, h, min_hole_area_px) ==
    LET inv   == Pixels(w, h) \ m
        ff    == floodFill(inv, <<0, 0>>)
        comps == connectedComponents(ff)
    IN  UNION {c \in comps : Cardinality(c) >= min_hole_area_px}

hole_frac(m, w, h, min_hole_area_px) ==
    IF m = {} THEN Frac(0, 1)
    ELSE ratio_or_zero(Cardinality(holes_big(m, w, h, min_hole_area_px)),
                       Cardinality(m))

\* ---------------------------------------------------------- the classifier
Reasons == {"too_small", "too_large", "border_touch_frac", "hole_frac", "kept"}

\* the ordered threshold rules of is_background_like (lines 183-198),
\* MutRulesLargeFirst: the same rules with largeness tested before smallness
MutRulesLargeFirst(s, stats) ==
    IF FracGeq(stats.area_frac, s.BG_AREA_FRAC_TH)
        THEN [is_bg |-> TRUE, reason |-> "too_large", stats |-> stats]
    ELSE IF stats.area < s.MIN_INSTANCE_AREA_PX
        THEN [is_bg |-> TRUE, reason |-> "too_small", stats |-> stats]
    ELSE IF FracGeq(stats.border_touch_frac, s.BORDER_TOUCH_FRAC_TH)
        THEN [is_bg |-> TRUE, reason |-> "border_touch_frac", stats |-> stats]
    ELSE IF s.ENABLE_HOLE_HEURISTIC /\ FracGeq(stats.hole_frac, s.HOLE_FRAC_TH)
        THEN [is_bg |-> TRUE, reason |-> "hole_frac", stats |-> stats]
    ELSE [is_bg |-> FALSE, reason |-> "kept", stats |-> stats]

\* MutRulesSkipEmpty: the noise floor applied to non-empty masks only
MutRulesSkipEmpty(s, stats) ==
    IF stats.area > 0 /\ stats.area < s.MIN_INSTANCE_AREA_PX
        THEN [is_bg |-> TRUE, reason |-> "too_small", stats |-> stats]
    ELSE IF stats.area > 0 /\ FracGeq(stats.area_frac, s.BG_AREA_FRAC_TH)
        THEN [is_bg |-> TRUE, reason |-> "too_large", stats |-> stats]
    ELSE IF stats.area > 0
            /\ FracGeq(stats.border_touch_frac, s.BORDER_TOUCH_FRAC_TH)
        THEN [is_bg |-> TRUE, reason |-> "border_touch_frac", stats |-> stats]
    ELSE IF s.ENABLE_HOLE_HEURISTIC /\ stats.area > 0
            /\ FracGeq(stats.hole_frac, s.HOLE_FRAC_TH)
        THEN [is_bg |-> TRUE, reason |-> "hole_frac", stats |-> stats]
    ELSE [is_bg |-> FALSE, reason |-> "kept", stats |-> stats]

background_rules(s, stats) ==
    IF stats.area < s.MIN_INSTANCE_AREA_PX
        THEN [is_bg |-> TRUE, reason |-> "too_small", stats |-> stats]
    ELSE IF FracGeq(stats.area_frac, s.BG_AREA_FRAC_TH)
        THEN [is_bg |-> TRUE, reason |-> "too_large", stats |-> stats]
    ELSE IF FracGeq(stats.border_touch_frac, s.BORDER_TOUCH_FRAC_TH)
        THEN [is_bg |-> TRUE, reason |-> "border_touch_frac", stats |-> stats]
    ELSE IF s.ENABLE_HOLE_HEURISTIC /\ FracGeq(stats.hole_frac, s.HOLE_FRAC_TH)
        THEN [is_bg |-> TRUE, reason |-> "hole_frac", stats |-> stats]
    ELSE [is_bg |-> FALSE, reason |-> "kept", stats |-> stats]

\* the stats dict of is_background_like (lines 170-181)
mask_stats(s, m, w, h) ==
    LET area == Cardinality(m)
    IN  [area              |-> area,
         area_frac         |-> IF h * w > 0 THEN Frac(area, h * w) ELSE Frac(0, 1),
         border_touch_frac |-> border_touch_frac(m, w, h, s.BORDER_BAND_PX),
         hole_frac         |-> IF s.ENABLE_HOLE_HEURISTIC
                                 THEN hole_frac(m, w, h, s.MIN_HOLE_AREA_PX)
                                 ELSE Frac(0, 1)]

is_background_like(s, m, w, h) == background_rules(s, mask_stats(s, m, w, h))

\* ---------------------------------------------------------- the simplifier
\* Coordinates handed to simplify_polygon are in half pixels (2 is one
\* pixel), so that rounding has something to round; the points it returns
\* are whole pixels.

\* int(round(v)) of the float v = k / 2: Python rounds a half to the even
\* neighbour
RoundHalfEven(k) ==
    LET q == k \div 2
    IN  IF k % 2 = 0 THEN q
        ELSE IF q % 2 = 0 THEN q ELSE q + 1

RoundPoint(p) == <<RoundHalfEven(p[1]), RoundHalfEven(p[2])>>

\* MutLinspaceOpenEnd: np.linspace(0, n - 1, m, endpoint=False).astype(int)
MutLinspaceOpenEnd(n, m) == [i \in 1 .. m |-> ((i - 1) * (n - 1)) \div m]

\* np.linspace(0, n - 1, m).astype(int), as a 1-based sequence of 0-based
\* indices
linspace_idx(n, m) ==
    IF m = 1 THEN <<0>>
    ELSE [i \in 1 .. m |-> ((i - 1) * (n - 1)) \div (m - 1)]

RECURSIVE PickFrom(_, _, _)
PickFrom(pts, I, i) ==
    IF i > Len(pts) THEN <<>>
    ELSE (IF i \in I THEN <<pts[i]>> ELSE <<>>) \o PickFrom(pts, I, i + 1)

\* no two successive points of a closed sequence are the same point, the
\* last and the first being successive
NoRepeat(q) ==
    \A j \in 1 .. Len(q) :
        Len(q) > 1 => q[j] # q[IF j = Len(q) THEN 1 ELSE j + 1]

\* cv2.approxPolyDP(pts, eps, True) is OpenCV's, not the script's: the model
\* takes from it only that the result is a non-empty selection of the
\* polygon's vertices, in their order, and that a vertex it keeps lies
\* farther than eps >= 1 from the chord between the vertices kept next to
\* it, so no two successive vertices of the closed result are the same
\* point. It may keep one vertex or two. (The vertex a closed polygon is
\* read from is the caller's choice: every rotation of a polygon is a
\* polygon the model hands over as well.)
approxPolyDP(pts) ==
    {q \in {PickFrom(pts, I, 1) : I \in (SUBSET (1 .. Len(pts))) \ {{}}} :
        NoRepeat(q)}

\* the results approxPolyDP may return to a call of simplify_polygon; a call
\* that returns early never asks
ApproxChoices(pts) == IF Len(pts) < 3 THEN {<<>>} ELSE approxPolyDP(pts)

\* MutSimplifyNoResample: simplify_polygon without the MAX_POINTS resampling
MutSimplifyNoResample(s, pts, approx) ==
    IF Len(pts) < 3 THEN <<>>
    ELSE LET rounded == [i \in 1 .. Len(approx) |-> RoundPoint(approx[i])]
         IN  IF Len(rounded) >= 2 /\ rounded[1] = rounded[Len(rounded)]
               THEN SubSeq(rounded, 1, Len(rounded) - 1)
               ELSE rounded

\* simplify_polygon(poly_xy), approx being what approxPolyDP returned
simplify_polygon(s, pts, approx) ==
    IF Len(pts) < 3 THEN <<>>
    ELSE LET n         == Len(approx)
             idx       == linspace_idx(n, s.MAX_POINTS)
             approx_xy == IF n > s.MAX_POINTS
                            THEN [i \in 1 .. s.MAX_POINTS |-> approx[idx[i] + 1]]
                            ELSE approx
             rounded   == [i \in 1 .. Len(approx_xy) |-> RoundPoint(approx_xy[i])]
         IN  IF Len(rounded) >= 2 /\ rounded[1] = rounded[Len(rounded)]
               THEN SubSeq(rounded, 1, Len(rounded) - 1)
               ELSE rounded

\* ------------------------------------------------------------ the settings
\* Values of the USER SETTINGS block, scaled to rasters of MaxPixels pixels.
\* MIN_INSTANCE_AREA_PX is positive, as in the script (150).
AllClassifierSettings ==
    [MIN_INSTANCE_AREA_PX  : {1, 3},
     BG_AREA_FRAC_TH       : {Frac(0, 1), Frac(9, 20)},
     BORDER_TOUCH_FRAC_TH  : {Frac(1, 10), Frac(3, 4)},
     BORDER_BAND_PX        : {1, 3},
     ENABLE_HOLE_HEURISTIC : BOOLEAN,
     HOLE_FRAC_TH          : {Frac(2, 25)},
     MIN_HOLE_AREA_PX      : {1, 2}]

\* MIN_HOLE_AREA_PX is read only when the hole heuristic is enabled
ClassifierSettings ==
    {s \in AllClassifierSettings :
        s.ENABLE_HOLE_HEURISTIC \/ s.MIN_HOLE_AREA_PX = 1}

\* an outline one pixel thick, one pixel inside the edge of an n x n raster
RingMask(n) ==
    {p \in Pixels(n, n) :
        /\ p[1] >= 1 /\ p[1] <= n - 2 /\ p[2] >= 1 /\ p[2] <= n - 2
        /\ (p[1] \in {1, n - 2} \/ p[2] \in {1, n - 2})}

RingSides == 5 .. MaxRingSide

RasterDims == {d \in (1 .. MaxPixels) \X (1 .. MaxPixels) : d[1] * d[2] <= MaxPixels}

\* ------------------------------------------------------------ idle parts
NoExport == [masks01 |-> <<>>, mi |-> 0, contours |-> <<>>, area |-> 0,
             polys |-> <<>>, kept |-> 0, small |-> 0,
             last |-> [n_approx |-> 0, n_out |-> 0]]

IdleRun ==
    /\ script = None
    /\ res0_masks = None
    /\ masks = <<>>
    /\ loop_i = 0
    /\ kept_masks = <<>>
    /\ dropped_masks = <<>>
    /\ exp = NoExport
    /\ payload = <<>>
    /\ ret = <<>>

\* ------------------------------------------------- specification: classify
InitClassify ==
    /\ cfg \in ClassifierSettings
    /\ img = None
    /\ mask = None
    /\ pc = "start"
    /\ cls = None
    /\ poly_xy = <<>>
    /\ out = None
    /\ IdleRun

\* the segmentation backend hands over one mask (get_masks_from_result):
\* any raster of at most MaxPixels pixels, or a thin ring
GetMask ==
    /\ pc = "start"
    /\ \/ \E d \in RasterDims :
             /\ img' = [w |-> d[1], h |-> d[2]]
             /\ mask' \in SUBSET Pixels(d[1], d[2])
       \/ \E n \in RingSides :
             /\ img' = [w |-> n, h |-> n]
             /\ mask' = RingMask(n)
    /\ pc' = "mask"
    /\ UNCHANGED <<cfg, cls, poly_xy, out>>
    /\ UNCHANGED runvars

\* one call of is_background_like(m)
Classify ==
    /\ pc = "mask"
    /\ cls' = is_background_like(cfg, mask, img.w, img.h)
    /\ pc' = "classified"
    /\ UNCHANGED <<cfg, img, mask, poly_xy, out>>
    /\ UNCHANGED runvars

NextClassify == GetMask \/ Classify

SpecClassify == InitClassify /\ [][NextClassify]_vars

Classified == pc = "classified"

\* the conditions of the four rules, read off the returned stats
Rule1 == cls.stats.area < cfg.MIN_INSTANCE_AREA_PX
Rule2 == FracGeq(cls.stats.area_frac, cfg.BG_AREA_FRAC_TH)
Rule3 == FracGeq(cls.stats.border_touch_frac, cfg.BORDER_TOUCH_FRAC_TH)
Rule4 == cfg.ENABLE_HOLE_HEURISTIC /\ FracGeq(cls.stats.hole_frac, cfg.HOLE_FRAC_TH)

\* C1: the reason names the first rule, in the order too_small, too_large,
\* border_touch, hole_frac, whose condition holds, and kept when none does.
C1_RuleOrder ==
    Classified =>
        /\ (cls.reason = "too_small") = Rule1
        /\ (cls.reason = "too_large") = (~Rule1 /\ Rule2)
        /\ (cls.reason = "border_touch_frac") = (~Rule1 /\ ~Rule2 /\ Rule3)
        /\ (cls.reason = "hole_frac") = (~Rule1 /\ ~Rule2 /\ ~Rule3 /\ Rule4)
        /\ (cls.reason = "kept") = (~Rule1 /\ ~Rule2 /\ ~Rule3 /\ ~Rule4)

\* the empty mask under a threshold that rule 2 satisfies as well: too_small
C1_Witness ==
    /\ Classified /\ Rule1 /\ Rule2
    /\ cls.stats.area = 0
    /\ cls.reason = "too_small"

\* C2: every raster is classified, with one reason out of the five;
\* is_bg is false exactly for kept; the empty mask has area 0 and is
\* background by rule 1.
C2_Total ==
    /\ (pc = "mask") =>
          is_background_like(cfg, mask, img.w, img.h).reason \in Reasons
    /\ Classified =>
          /\ cls.reason \in Reasons
          /\ cls.is_bg = (cls.reason # "kept")
          /\ cls.stats.area = Cardinality(mask)
          /\ (mask = {}) =>
                (cls.stats.area = 0 /\ cls.is_bg /\ cls.reason = "too_small")

\* the all-false raster, classified, with rule 2 satisfied as well
C2_Witness ==
    /\ Classified /\ mask = {} /\ cls.reason = "too_small"
    /\ cfg.BG_AREA_FRAC_TH = Frac(0, 1)

\* C10 as stated: the three fractions of the stats lie in [0, 1].
C10_FractionsInUnit ==
    Classified =>
        /\ FracInUnit(cls.stats.area_frac)
        /\ FracInUnit(cls.stats.border_touch_frac)
        /\ FracInUnit(cls.stats.hole_frac)

\* C10, amended: area_frac and border_touch_frac lie in [0, 1]; hole_frac
\* is non-negative and the hole area is at most the number of background
\* pixels, so hole_frac may exceed 1.
C10_FractionsBounded ==
    Classified =>
        /\ FracInUnit(cls.stats.area_frac)
        /\ FracInUnit(cls.stats.border_touch_frac)
        /\ cls.stats.hole_frac[2] > 0
        /\ cls.stats.hole_frac[1] >= 0
        /\ cls.stats.hole_frac[1] + cls.stats.area <= img.w * img.h

\* a thin ring that touches no edge, around a hole larger than the ring
C10_Witness ==
    /\ Classified
    /\ mask = RingMask(img.w)
    /\ img.w = img.h
    /\ cls.stats.border_touch_frac[1] < cls.stats.area
    /\ cls.stats.hole_frac[1] > cls.stats.area

\* ------------------------------------------------- specification: simplify
HalfPixelPoints == (0 .. MaxCoord2) \X (0 .. 1)

RECURSIVE SeqsUpTo(_, _)
SeqsUpTo(S, n) ==
    IF n = 0 THEN {<<>>}
    ELSE LET shorter == SeqsUpTo(S, n - 1)
         IN  shorter \cup {Append(q, x) : q \in {r \in shorter : Len(r) = n - 1}, x \in S}

SimplifierSettings == [MAX_POINTS : {3, 4}]

InitSimplify ==
    /\ cfg \in SimplifierSettings
    /\ pc = "start"
    /\ img = None
    /\ mask = None
    /\ cls = None
    /\ poly_xy = <<>>
    /\ out = None
    /\ IdleRun

\* a caller builds the argument of simplify_polygon
GetPoints ==
    /\ pc = "start"
    /\ poly_xy' \in SeqsUpTo(HalfPixelPoints, MaxLen)
    /\ pc' = "points"
    /\ UNCHANGED <<cfg, img, mask, cls, out>>
    /\ UNCHANGED runvars

\* one call of simplify_polygon(poly_xy)
Simplify ==
    /\ pc = "points"
    /\ \E approx \in ApproxChoices(poly_xy) :
          out' = simplify_polygon(cfg, poly_xy, approx)
    /\ pc' = "simplified"
    /\ UNCHANGED <<cfg, img, mask, cls, poly_xy>>
    /\ UNCHANGED runvars

NextSimplify == GetPoints \/ Simplify

SpecSimplify == InitSimplify /\ [][NextSimplify]_vars

Simplified == pc = "simplified"

\* C3 as stated: simplify_polygon returns no point, or between 3 and
\* MAX_POINTS points, never exactly 1 or 2.
C3_LengthZeroOrThreeUp ==
    Simplified => (Len(out) = 0 \/ (Len(out) >= 3 /\ Len(out) <= cfg.MAX_POINTS))

\* C3, amended: simplify_polygon returns at most MAX_POINTS points, and none
\* for an input of fewer than 3 points; a result of 1 or 2 points is
\* possible.
C3_LengthAtMostMax ==
    Simplified =>
        /\ Len(out) <= cfg.MAX_POINTS
        /\ (Len(poly_xy) < 3 => out = <<>>)

\* an input longer than MAX_POINTS whose approximation was resampled down
\* to MAX_POINTS points and lost its trailing point, equal to the first
\* after rounding
C3_Witness ==
    /\ Simplified
    /\ Len(poly_xy) > cfg.MAX_POINTS
    /\ Len(out) = cfg.MAX_POINTS - 1
    /\ Len(out) = 2
    /\ \A i \in 1 .. Len(poly_xy) : \A j \in 1 .. Len(poly_xy) :
          i # j => poly_xy[i] # poly_xy[j]

\* ------------------------------------------------------ pipeline helpers
\* Contour points are whole pixels, written in half pixels like every point
\* of the simplifier: 0 and 2 are the pixels 0 and 1.
CornerPoints == {<<0, 0>>, <<2, 0>>, <<2, 2>>, <<0, 2>>}

\* twice the shoelace sum of a closed point sequence, in half pixels squared
RECURSIVE ShoelaceSum(_, _)
ShoelaceSum(c, j) ==
    IF j > Len(c) THEN 0
    ELSE LET p == c[j]
             q == c[IF j = Len(c) THEN 1 ELSE j + 1]
         IN  (p[1] * q[2] - q[1] * p[2]) + ShoelaceSum(c, j + 1)

\* cv2.contourArea, in half square pixels so that it stays an integer
contourArea(c) == Abs(ShoelaceSum(c, 1)) \div 4

\* What cv2.findContours returns for one outer border: a closed walk over
\* pixels in which consecutive points differ, also the last and the first.
\* The walk may pass through one pixel several times.
IsContour(c) ==
    /\ Len(c) >= 1
    /\ \A j \in 1..Len(c) :
          Len(c) > 1 => c[j] # c[IF j = Len(c) THEN 1 ELSE j + 1]

AllContours == {c \in SeqsUpTo(CornerPoints, MaxContourLen) : IsContour(c)}

\* one pixel, two pixels, a triangle, a square
SampleContours ==
    { << <<0, 0>> >>,
      << <<0, 0>>, <<2, 0>> >>,
      << <<0, 0>>, <<2, 0>>, <<2, 2>> >>,
      << <<0, 0>>, <<2, 0>>, <<2, 2>>, <<0, 2>> >> }

\* the contours a run can meet: any contour when it traces one border only,
\* the sample ones when it traces n > 1
Contours(n) == IF n <= 1 THEN AllContours ELSE SampleContours

ContourAreas(n) == {contourArea(c) : c \in Contours(n)}

\* area < MIN_CONTOUR_AREA, the area being in half square pixels
MutNeverTooSmall(s, area) == FALSE

contour_too_small(s, area) == area < 2 * s.MIN_CONTOUR_AREA

\* len(poly) < 3
MutNeverTooShort(poly) == FALSE

poly_too_short(poly) == Len(poly) < 3

\* sorted(contours, key=cv2.contourArea, reverse=True): stable, descending
MutSortContoursAscending(areas) ==
    LET n == Len(areas)
        pos(j) == Cardinality({l \in 1..n : areas[l] < areas[j]})
                  + Cardinality({l \in 1..n : l < j /\ areas[l] = areas[j]}) + 1
    IN  [p \in 1..n |-> areas[CHOOSE j \in 1..n : pos(j) = p]]

sort_contours(areas) ==
    LET n == Len(areas)
        pos(j) == Cardinality({l \in 1..n : areas[l] > areas[j]})
                  + Cardinality({l \in 1..n : l < j /\ areas[l] = areas[j]}) + 1
    IN  [p \in 1..n |-> areas[CHOOSE j \in 1..n : pos(j) = p]]

\* polys.sort(key=lambda p: p["area_px"], reverse=True): stable, descending
MutSortPolysTiesReversed(polys) ==
    LET n == Len(polys)
        pos(j) == Cardinality({l \in 1..n : polys[l].area_px > polys[j].area_px})
                  + Cardinality({l \in 1..n : l > j /\ polys[l].area_px = polys[j].area_px}) + 1
    IN  [p \in 1..n |-> polys[CHOOSE j \in 1..n : pos(j) = p]]

sort_polys(polys) ==
    LET n == Len(polys)
        pos(j) == Cardinality({l \in 1..n : polys[l].area_px > polys[j].area_px})
                  + Cardinality({l \in 1..n : l < j /\ polys[l].area_px = polys[j].area_px}) + 1
    IN  [p \in 1..n |-> polys[CHOOSE j \in 1..n : pos(j) = p]]

\* the key of np.argsort(-areas): areas is an unsigned 64-bit array, so the
\* negation wraps: -0 is 0 and -a is 2^64 - a.  The keys are ordered alike
\* under any modulus above the largest area; 2^30 is one TLC can compute with.
NegArea(a) == (1073741824 - a) % 1073741824

\* the orders np.argsort(-areas) can return: ascending in the key, any order
\* among equal keys
ArgsortOrders(ms) ==
    LET n == Len(ms)
    IN  {o \in [1..n -> 1..n] :
            /\ \A a, b \in 1..n : a # b => o[a] # o[b]
            /\ \A a, b \in 1..n :
                  a < b => NegArea(ms[o[a]].area) <= NegArea(ms[o[b]].area)}

\* the orders sorted(masks, key=area, reverse=True) of the SAM2 script can
\* give to masks known by their area: descending in the area
SortedOrders(ms) ==
    LET n == Len(ms)
    IN  {o \in [1..n -> 1..n] :
            /\ \A a, b \in 1..n : a # b => o[a] # o[b]
            /\ \A a, b \in 1..n :
                  a < b => ms[o[a]].area >= ms[o[b]].area}

\* the areas cv2.findContours can report for the union of the masks ms: none
\* for a union without pixels
UnionContourAreas(ms) ==
    IF \A j \in 1..Len(ms) : ms[j].area = 0 THEN {<<>>}
    ELSE SeqsUpTo(ContourAreas(Len(ms)), MaxContours)

\* stats of is_background_like for a mask of which the pixel counts are known
count_stats(s, area, w, h, touch, hole) ==
    [area |-> area,
     area_frac |-> IF h * w > 0 THEN Frac(area, h * w) ELSE Frac(0, 1),
     border_touch_frac |-> ratio_or_zero(touch, area),
     hole_frac |-> IF s.ENABLE_HOLE_HEURISTIC THEN ratio_or_zero(hole, area)
                   ELSE Frac(0, 1)]

\* pixel counts of the masks of a run on the 3 x 3 image: an empty mask, a
\* small one, one that covers a third of the image
MaskAreas == {0, 1, 3}

RunSettings ==
    [MIN_INSTANCE_AREA_PX : {1}, BG_AREA_FRAC_TH : {Frac(1, 3)},
     BORDER_TOUCH_FRAC_TH : {Frac(3, 4)}, BORDER_BAND_PX : {1},
     ENABLE_HOLE_HEURISTIC : {TRUE}, HOLE_FRAC_TH : {Frac(2, 25)},
     MIN_HOLE_AREA_PX : {1}, MIN_CONTOUR_AREA : {0, 1}, MAX_POINTS : {4},
     DROP_LARGEST_BG_FRAC : {Frac(1, 3)}]

NotesExport == "FastSAM per-instance masks. Background excluded via area + border-touch + hole heuristics."
NotesAllDropped == "All masks dropped as background/noise by heuristics."
NotesOld == "FastSAM segmentation. Pixel coords (origin top-left)."
NotesSam2 == "Coordinates are in image pixels (origin top-left). Unity should convert to local collider points using pixelsPerUnit and flip Y."

Payload(polys, notes) ==
    [image_w |-> img.w, image_h |-> img.h, polygons |-> polys, notes |-> notes]

\* ------------------------------------------------------ specification: run
InitRun ==
    /\ cfg \in RunSettings
    /\ script \in {"new", "old", "sam2"}
    /\ pc = "start"
    /\ img = [w |-> 3, h |-> 3]
    /\ mask = None
    /\ cls = None
    /\ poly_xy = <<>>
    /\ out = None
    /\ res0_masks = None
    /\ masks = <<>>
    /\ loop_i = 0
    /\ kept_masks = <<>>
    /\ dropped_masks = <<>>
    /\ exp = NoExport
    /\ payload = <<>>
    /\ ret = <<>>

\* main, res0.masks is None (len(masks) == 0 in the SAM2 script): the
\* overlay is saved and main returns
NoMasks ==
    /\ pc = "start"
    /\ res0_masks' = "None"
    /\ pc' = "done"
    /\ UNCHANGED <<cfg, clsvars, simpvars, script>>
    /\ UNCHANGED <<masks, loop_i, kept_masks, dropped_masks, exp, payload, ret>>

\* main, get_masks_from_result: the model found masks; each is known to the
\* run by its pixel count
GetMasks ==
    /\ pc = "start"
    /\ \E n \in 1..MaxMasks :
         \E areas \in [1..n -> MaskAreas] :
            masks' = [k \in 1..n |-> [area |-> areas[k], idx |-> k - 1]]
    /\ res0_masks' = "array"
    /\ pc' = "sort"
    /\ UNCHANGED <<cfg, clsvars, simpvars, script>>
    /\ UNCHANGED <<loop_i, kept_masks, dropped_masks, exp, payload, ret>>

\* main: order = np.argsort(-areas); masks = masks[order]; idx is the index
\* of a mask in the sorted array. The SAM2 script sorts with sorted().
SortMasks ==
    /\ pc = "sort"
    /\ \E o \in (IF script = "sam2" THEN SortedOrders(masks)
                                     ELSE ArgsortOrders(masks)) :
          masks' = [k \in 1..Len(masks) |->
                       [area |-> masks[o[k]].area, idx |-> k - 1]]
    /\ loop_i' = 1
    /\ pc' = IF script = "new" THEN "classify"
             ELSE IF script = "old" THEN "old_drop" ELSE "sam2_split"
    /\ UNCHANGED <<cfg, clsvars, simpvars, script>>
    /\ UNCHANGED <<res0_masks, kept_masks, dropped_masks, exp, payload, ret>>

\* if is_bg: dropped_masks.append(m) else: kept_masks.append(m)
MutKeepEveryMask(kept, dropped, m, is_bg) ==
    [kept |-> Append(kept, m), dropped |-> dropped]

keep_or_drop(kept, dropped, m, is_bg) ==
    IF is_bg THEN [kept |-> kept, dropped |-> Append(dropped, m)]
    ELSE [kept |-> Append(kept, m), dropped |-> dropped]

\* main: one round of the loop over masks; is_bg notes on the mask what
\* is_background_like returned for it
ClassifyMask ==
    /\ pc = "classify"
    /\ loop_i <= Len(masks)
    /\ LET m == masks[loop_i]
       IN  \E touch \in 0..m.area, hole \in 0..(img.w * img.h - m.area) :
              LET r == background_rules(cfg,
                           count_stats(cfg, m.area, img.w, img.h, touch, hole))
                  lists == keep_or_drop(kept_masks, dropped_masks,
                               [area |-> m.area, idx |-> m.idx, is_bg |-> r.is_bg],
                               r.is_bg)
              IN  /\ kept_masks' = lists.kept
                  /\ dropped_masks' = lists.dropped
    /\ loop_i' = loop_i + 1
    /\ UNCHANGED <<cfg, pc, clsvars, simpvars, script>>
    /\ UNCHANGED <<res0_masks, masks, exp, payload, ret>>

\* main, len(kept_masks) == 0: the empty payload is written
AllDropped ==
    /\ pc = "classify"
    /\ loop_i > Len(masks)
    /\ Len(kept_masks) = 0
    /\ payload' = Append(payload, Payload(<<>>, NotesAllDropped))
    /\ pc' = "done"
    /\ UNCHANGED <<cfg, clsvars, simpvars, script>>
    /\ UNCHANGED <<res0_masks, masks, loop_i, kept_masks, dropped_masks, exp, ret>>

\* main: masks_kept = np.stack(kept_masks); export_contours_from_masks is
\* entered with it
StartExport ==
    /\ pc = "classify"
    /\ loop_i > Len(masks)
    /\ Len(kept_masks) > 0
    /\ exp' = [NoExport EXCEPT !.masks01 = kept_masks, !.mi = 0]
    /\ pc' = "export"
    /\ UNCHANGED <<cfg, clsvars, simpvars, script>>
    /\ UNCHANGED <<res0_masks, masks, loop_i, kept_masks, dropped_masks, payload, ret>>

\* export_contours_from_masks: findContours on the cleaned mask mi, the
\* contours sorted, the largest one measured against MIN_CONTOUR_AREA
FindContours ==
    /\ pc = "export"
    /\ exp.mi < Len(exp.masks01)
    /\ \E found \in SeqsUpTo(ContourAreas(Len(masks)), MaxContours) :
          LET contours == sort_contours(found)
          IN  IF contours = <<>>
              THEN /\ exp' = [exp EXCEPT !.contours = <<>>, !.mi = @ + 1]
                   /\ pc' = "export"
              ELSE IF contour_too_small(cfg, contours[1])
              THEN /\ exp' = [exp EXCEPT !.contours = contours,
                                         !.area = contours[1],
                                         !.small = 1, !.mi = @ + 1]
                   /\ pc' = "export"
              ELSE /\ exp' = [exp EXCEPT !.contours = contours,
                                         !.area = contours[1]]
                   /\ pc' = "simplify"
    /\ UNCHANGED <<cfg, clsvars, simpvars, script>>
    /\ UNCHANGED <<res0_masks, masks, loop_i, kept_masks, dropped_masks, payload, ret>>

\* export_contours_from_masks: the largest contour is simplified and, with
\* three points or more, appended; k counts the polygons in the order of
\* their making and instance is the index of the mask in main's sorted array
SimplifyContour ==
    /\ pc = "simplify"
    /\ \E c \in Contours(Len(masks)) :
          /\ contourArea(c) = exp.area
          /\ \E approx \in ApproxChoices(c) :
                LET poly == simplify_polygon(cfg, c, approx)
                    last == [n_approx |-> Len(approx), n_out |-> Len(poly)]
                IN  IF poly_too_short(poly)
                    THEN exp' = [exp EXCEPT !.last = last, !.mi = @ + 1]
                    ELSE exp' = [exp EXCEPT
                            !.polys = Append(@,
                                [label |-> "object", outer |-> poly,
                                 holes |-> <<>>, area_px |-> exp.area,
                                 mask_index |-> exp.mi,
                                 instance |-> exp.masks01[exp.mi + 1].idx,
                                 k |-> exp.kept]),
                            !.kept = @ + 1, !.last = last, !.mi = @ + 1]
    /\ pc' = "export"
    /\ UNCHANGED <<cfg, clsvars, simpvars, script>>
    /\ UNCHANGED <<res0_masks, masks, loop_i, kept_masks, dropped_masks, payload, ret>>

\* export_contours_from_masks: the polygons are sorted and written
WritePayload ==
    /\ pc = "export"
    /\ exp.mi >= Len(exp.masks01)
    /\ payload' = Append(payload, Payload(sort_polys(exp.polys), NotesExport))
    /\ ret' = <<exp.kept>>
    /\ pc' = "done"
    /\ UNCHANGED <<cfg, clsvars, simpvars, script>>
    /\ UNCHANGED <<res0_masks, masks, loop_i, kept_masks, dropped_masks, exp>>

\* old main: the largest mask is dropped when it covers the image and is not
\* the only one, the rest is merged into one raster, and export_contours
\* finds its contours
OldUnion ==
    /\ pc = "old_drop"
    /\ LET rest == IF FracGeq(Frac(masks[1].area, img.w * img.h),
                              cfg.DROP_LARGEST_BG_FRAC) /\ Len(masks) > 1
                   THEN Tail(masks) ELSE masks
       IN  /\ masks' = rest
           /\ \E found \in UnionContourAreas(rest) :
                 exp' = [NoExport EXCEPT !.contours = found, !.mi = 0]
    /\ pc' = "old_export"
    /\ UNCHANGED <<cfg, clsvars, simpvars, script>>
    /\ UNCHANGED <<res0_masks, loop_i, kept_masks, dropped_masks, payload, ret>>

\* SAM2 main: bg = masks01[0], objs = masks01[1:]; the objects are merged
\* into one raster and mask_to_contours_json finds its contours
Sam2Split ==
    /\ pc = "sam2_split"
    /\ LET objs == Tail(masks)
       IN  /\ masks' = objs
           /\ \E found \in UnionContourAreas(objs) :
                 exp' = [NoExport EXCEPT !.contours = found, !.mi = 0]
    /\ pc' = "old_export"
    /\ UNCHANGED <<cfg, clsvars, simpvars, script>>
    /\ UNCHANGED <<res0_masks, loop_i, kept_masks, dropped_masks, payload, ret>>

\* old export_contours, and mask_to_contours_json of the SAM2 script: one
\* round of the loop over the contours
OldContour ==
    /\ pc = "old_export"
    /\ exp.mi < Len(exp.contours)
    /\ LET area == exp.contours[exp.mi + 1]
       IN  IF contour_too_small(cfg, area)
           THEN exp' = [exp EXCEPT !.area = area, !.small = 1, !.mi = @ + 1]
           ELSE \E c \in Contours(Len(masks) * Len(exp.contours)) :
                  /\ contourArea(c) = area
                  /\ \E approx \in ApproxChoices(c) :
                        LET poly == simplify_polygon(cfg, c, approx)
                            last == [n_approx |-> Len(approx), n_out |-> Len(poly)]
                        IN  IF ~poly_too_short(poly)
                            THEN exp' = [exp EXCEPT
                                    !.polys = Append(@,
                                        [label |-> "object", outer |-> poly,
                                         holes |-> <<>>, area_px |-> area,
                                         k |-> exp.kept]),
                                    !.kept = @ + 1, !.area = area,
                                    !.last = last, !.mi = @ + 1]
                            ELSE exp' = [exp EXCEPT !.area = area,
                                                    !.last = last, !.mi = @ + 1]
    /\ UNCHANGED <<cfg, pc, clsvars, simpvars, script>>
    /\ UNCHANGED <<res0_masks, masks, loop_i, kept_masks, dropped_masks, payload, ret>>

\* old export_contours, and mask_to_contours_json of the SAM2 script: the
\* polygons are sorted and written
OldWritePayload ==
    /\ pc = "old_export"
    /\ exp.mi >= Len(exp.contours)
    /\ payload' = Append(payload, Payload(sort_polys(exp.polys),
                             IF script = "old" THEN NotesOld ELSE NotesSam2))
    /\ ret' = <<Len(exp.polys)>>
    /\ pc' = "done"
    /\ UNCHANGED <<cfg, clsvars, simpvars, script>>
    /\ UNCHANGED <<res0_masks, masks, loop_i, kept_masks, dropped_masks, exp>>

NextRun ==
    \/ NoMasks
    \/ GetMasks
    \/ SortMasks
    \/ ClassifyMask
    \/ AllDropped
    \/ StartExport
    \/ FindContours
    \/ SimplifyContour
    \/ WritePayload
    \/ OldUnion
    \/ Sam2Split
    \/ OldContour
    \/ OldWritePayload

SpecRun == InitRun /\ [][NextRun]_vars

Done == pc = "done"
Written == payload # <<>>
TypeRun == Len(payload) <= 1

Polygons == payload[1].polygons

\* C4: every polygon of a written payload has an outer ring of at least 3
\* points whose first point differs from its last, in per-instance mode and
\* in union mode.
C4_OuterRingOpen ==
    Written =>
        \A j \in 1..Len(Polygons) :
            /\ Len(Polygons[j].outer) >= 3
            /\ Polygons[j].outer[1] # Polygons[j].outer[Len(Polygons[j].outer)]

\* a payload with one polygon of MAX_POINTS points, resampled from an
\* approximation of more points, written by a run of one mask
C4_Witness ==
    /\ Written
    /\ Len(masks) = 1
    /\ Len(Polygons) = 1
    /\ exp.last.n_approx > cfg.MAX_POINTS
    /\ exp.last.n_out = cfg.MAX_POINTS
    /\ Len(Polygons[1].outer) = cfg.MAX_POINTS

\* C5: the polygons of a written payload are in descending order of area_px,
\* polygons of equal area_px in the order of their making, which in
\* per-instance mode is the ascending order of their instances.
C5_SortedStable ==
    Written =>
        \A a \in 1..Len(Polygons) : \A b \in 1..Len(Polygons) :
            a < b =>
              /\ Polygons[a].area_px >= Polygons[b].area_px
              /\ (Polygons[a].area_px = Polygons[b].area_px
                    => Polygons[a].k < Polygons[b].k)
              /\ (script = "new" /\ Polygons[a].area_px = Polygons[b].area_px
                    => Polygons[a].instance < Polygons[b].instance)

\* a payload in which the sort moved a later polygon to the front, and one
\* in which two polygons have the same area
C5_Witness ==
    /\ Written
    /\ Len(Polygons) >= 2
    /\ \/ Polygons[1].k > Polygons[2].k
       \/ /\ script = "old"
          /\ Polygons[1].area_px = Polygons[2].area_px
          /\ Polygons[1].outer # Polygons[2].outer

\* C6: no polygon of a written payload has an area below MIN_CONTOUR_AREA,
\* in per-instance mode and in union mode; a contour below it is skipped,
\* the run goes on and writes the others.
C6_NoSmallPolygon ==
    /\ pc # "raised"
    /\ Written =>
         \A j \in 1..Len(Polygons) :
            Polygons[j].area_px >= 2 * cfg.MIN_CONTOUR_AREA

\* a payload with a polygon, written by a run that skipped a contour below
\* a MIN_CONTOUR_AREA of 1
C6_Witness ==
    /\ Written
    /\ cfg.MIN_CONTOUR_AREA = 1
    /\ exp.small = 1
    /\ Len(Polygons) >= 1

\* C7 as stated: in per-instance mode the mask_index of a polygon is the
\* index of its instance in main's sorted mask array.
C7_MaskIndexIsSortedIndex ==
    (Written /\ script = "new") =>
        \A j \in 1..Len(Polygons) : Polygons[j].mask_index = Polygons[j].instance

\* C8: in per-instance mode a polygon is made from the largest contour of
\* its mask; no two polygons of a payload have the same mask_index, there are
\* no more polygons than kept masks, and as many as the exporter returns.
C8_OnePolygonPerInstance ==
    script = "new" =>
        /\ (pc = "simplify" \/ (pc = "export" /\ exp.polys # <<>>
                                /\ exp.polys[Len(exp.polys)].mask_index = exp.mi - 1))
              => /\ \A j \in 1..Len(exp.contours) : exp.contours[j] <= exp.area
                 /\ exp.contours # <<>>
        /\ (pc = "export" /\ exp.polys # <<>>
                /\ exp.polys[Len(exp.polys)].mask_index = exp.mi - 1)
              => exp.polys[Len(exp.polys)].area_px = exp.area
        /\ Len(exp.polys) <= Len(kept_masks)
        /\ Written =>
              /\ \A a \in 1..Len(Polygons) : \A b \in 1..Len(Polygons) :
                    a # b => Polygons[a].mask_index # Polygons[b].mask_index
              /\ \A a \in 1..Len(Polygons) :
                    Polygons[a].mask_index \in 0..(Len(kept_masks) - 1)
              /\ Len(Polygons) <= Len(kept_masks)
              /\ (exp.masks01 # <<>> => ret = <<Len(Polygons)>>)

\* a polygon just made for a mask in which findContours found a larger and
\* a smaller contour
C8_Witness ==
    /\ script = "new"
    /\ pc = "export"
    /\ exp.polys # <<>>
    /\ exp.polys[Len(exp.polys)].mask_index = exp.mi - 1
    /\ Len(exp.contours) >= 2
    /\ exp.contours[2] < exp.contours[1]
    /\ exp.contours[2] >= 2 * cfg.MIN_CONTOUR_AREA

\* C9 as stated: a run of main in which nothing survives ends with a written
\* payload of no polygons.
C9_EmptyPayloadWritten ==
    (Done /\ script = "new" /\ exp.polys = <<>>) =>
        /\ Written
        /\ Polygons = <<>>

\* ------------------------------------------------------------- C11 .. C18
\* the background pixels of a raster that no 4-connected path of background
\* joins to the raster's edge, grouped in 8-connected components of at least
\* min_hole_area_px pixels: the holes the foreground encloses
EdgePixels(w, h) ==
    {p \in Pixels(w, h) : p[1] = 0 \/ p[1] = w - 1 \/ p[2] = 0 \/ p[2] = h - 1}

EnclosedHoles(m, w, h, min_hole_area_px) ==
    LET inv      == Pixels(w, h) \ m
        outside  == Grow(inv \cap EdgePixels(w, h), inv, 4)
        comps    == connectedComponents(inv \ outside)
    IN  UNION {c \in comps : Cardinality(c) >= min_hole_area_px}

\* C11 as stated: for a mask with foreground, the pixels hole_frac counts
\* are the enclosed holes of at least MIN_HOLE_AREA_PX pixels, and none of
\* them is joined to the raster's edge by background.
C11_HolesAreEnclosed ==
    (Classified /\ cfg.ENABLE_HOLE_HEURISTIC /\ mask # {}) =>
        holes_big(mask, img.w, img.h, cfg.MIN_HOLE_AREA_PX)
            = EnclosedHoles(mask, img.w, img.h, cfg.MIN_HOLE_AREA_PX)

\* ------------------------------------------ specification: any caller input
\* The settings are module globals a user edits and the functions take any
\* array: here they are set to values with and without sense, and the
\* classifier also gets rasters without pixels.
\* (at most one of them without sense at a time)
AnySettings ==
    {s \in [MIN_INSTANCE_AREA_PX : {-1, 1}, BG_AREA_FRAC_TH : {Frac(9, 20)},
            BORDER_TOUCH_FRAC_TH : {Frac(3, 4)}, BORDER_BAND_PX : {0, 1},
            ENABLE_HOLE_HEURISTIC : {TRUE}, HOLE_FRAC_TH : {Frac(2, 25)},
            MIN_HOLE_AREA_PX : {1}, MAX_POINTS : {2, 3}] :
        Cardinality({f \in {"a", "b", "p"} :
            \/ f = "a" /\ s.MIN_INSTANCE_AREA_PX < 0
            \/ f = "b" /\ s.BORDER_BAND_PX <= 0
            \/ f = "p" /\ s.MAX_POINTS < 3}) <= 1}

InitAnyInput ==
    /\ cfg \in AnySettings
    /\ img = None
    /\ mask = None
    /\ pc = "start"
    /\ cls = None
    /\ poly_xy = <<>>
    /\ out = None
    /\ IdleRun

\* a caller hands is_background_like an array of shape (0, n), (n, 0) or
\* (0, 0)
GetEmptyRaster ==
    /\ pc = "start"
    /\ \E d \in ((0..MaxPixels) \X (0..MaxPixels)) :
          /\ d[1] * d[2] = 0
          /\ img' = [w |-> d[1], h |-> d[2]]
    /\ mask' = {}
    /\ pc' = "mask"
    /\ UNCHANGED <<cfg, cls, poly_xy, out>>
    /\ UNCHANGED runvars

NextAnyInput ==
    \/ GetMask
    \/ GetEmptyRaster
    \/ Classify
    \/ GetPoints
    \/ Simplify

SpecAnyInput == InitAnyInput /\ [][NextAnyInput]_vars

\* settings the specification calls non-sensical
NonSensical(s) ==
    \/ s.MIN_INSTANCE_AREA_PX < 0
    \/ s.BORDER_BAND_PX <= 0
    \/ s.MAX_POINTS < 3

\* C12 as stated: with non-sensical settings no call of the classifier or of
\* the simplifier runs to its result.
C12_ParametersRejected ==
    NonSensical(cfg) => ~(Classified \/ Simplified)

\* C13 as stated: the classifier returns no classification for a raster of
\* non-positive dimensions.
C13_RasterRejected ==
    Classified => (img.w > 0 /\ img.h > 0)

\* ------------------------------------------------------ specification: clean
\* cv2.erode / cv2.dilate with the 3 x 3 kernel of ones: pixels beyond the
\* raster's edge count as set for the erosion and as clear for the dilation
\* (OpenCV's default border value)
Neighbourhood(p, w, h) ==
    {q \in Pixels(w, h) : Abs(q[1] - p[1]) <= 1 /\ Abs(q[2] - p[2]) <= 1}

erode(m, w, h) ==
    UNION {IF Neighbourhood(p, w, h) \subseteq m THEN {p} ELSE {} : p \in Pixels(w, h)}

dilate(m, w, h) ==
    UNION {IF Neighbourhood(p, w, h) \cap m # {} THEN {p} ELSE {} : p \in Pixels(w, h)}

RECURSIVE erode_n(_, _, _, _)
erode_n(m, w, h, n) == IF n <= 0 THEN m ELSE erode_n(erode(m, w, h), w, h, n - 1)

RECURSIVE dilate_n(_, _, _, _)
dilate_n(m, w, h, n) == IF n <= 0 THEN m ELSE dilate_n(dilate(m, w, h), w, h, n - 1)

\* cv2.morphologyEx(m, op, kernel, iterations=n): MORPH_OPEN erodes n times
\* and then dilates n times, MORPH_CLOSE dilates n times and then erodes n
\* times; n = 0 copies the raster
morphologyEx(m, w, h, op, n) ==
    IF op = "MORPH_OPEN" THEN dilate_n(erode_n(m, w, h, n), w, h, n)
    ELSE erode_n(dilate_n(m, w, h, n), w, h, n)

\* MutCloseBeforeOpen: _morph_clean with the closing before the opening
MutCloseBeforeOpen(s, m, w, h) ==
    LET m1 == IF s.DO_CLOSE THEN morphologyEx(m, w, h, "MORPH_CLOSE", s.MORPH_ITERS)
              ELSE m
    IN  IF s.DO_OPEN THEN morphologyEx(m1, w, h, "MORPH_OPEN", s.MORPH_ITERS)
        ELSE m1

\* _morph_clean(binary255)
_morph_clean(s, m, w, h) ==
    LET m1 == IF s.DO_OPEN THEN morphologyEx(m, w, h, "MORPH_OPEN", s.MORPH_ITERS)
              ELSE m
    IN  IF s.DO_CLOSE THEN morphologyEx(m1, w, h, "MORPH_CLOSE", s.MORPH_ITERS)
        ELSE m1

\* the morph cleanup of cv_segment_objects in the archived OpenCV script
cv_morph_cleanup(s, m, w, h) ==
    LET m1 == IF s.OPEN_ITERS > 0
              THEN morphologyEx(m, w, h, "MORPH_OPEN", s.OPEN_ITERS) ELSE m
    IN  IF s.CLOSE_ITERS > 0
        THEN morphologyEx(m1, w, h, "MORPH_CLOSE", s.CLOSE_ITERS) ELSE m1

IterationCounts == {0, 1, 2}

InitClean ==
    /\ \/ /\ script = "new"
          /\ cfg \in [DO_OPEN : BOOLEAN, DO_CLOSE : BOOLEAN,
                      MORPH_ITERS : IterationCounts]
       \/ /\ script = "cv"
          /\ cfg \in [OPEN_ITERS : IterationCounts, CLOSE_ITERS : IterationCounts]
    /\ img = None
    /\ mask = None
    /\ pc = "start"
    /\ cls = None
    /\ poly_xy = <<>>
    /\ out = <<>>
    /\ res0_masks = None
    /\ masks = <<>>
    /\ loop_i = 0
    /\ kept_masks = <<>>
    /\ dropped_masks = <<>>
    /\ exp = NoExport
    /\ payload = <<>>
    /\ ret = <<>>

\* one call of the cleanup, on the mask and then on what it returned
Clean ==
    /\ pc \in {"mask", "cleaned"}
    /\ LET m == IF pc = "mask" THEN mask ELSE out[1]
       IN  out' = Append(out, IF script = "new"
                              THEN _morph_clean(cfg, m, img.w, img.h)
                              ELSE cv_morph_cleanup(cfg, m, img.w, img.h))
    /\ pc' = IF pc = "mask" THEN "cleaned" ELSE "cleaned_twice"
    /\ UNCHANGED <<cfg, img, mask, cls, poly_xy>>
    /\ UNCHANGED runvars

NextClean == GetMask \/ Clean

SpecClean == InitClean /\ [][NextClean]_vars

Cleaned == pc \in {"cleaned", "cleaned_twice"}

\* C14: with 0 iterations the cleanup returns its input, whatever the flags,
\* also when applied twice; with iterations and both flags set the result is
\* the closing (dilations, then erosions) of the opening (erosions, then
\* dilations) of the input.
C14_CleanNoOpAndOrder ==
    Cleaned =>
        /\ (script = "new" /\ cfg.MORPH_ITERS = 0)
              => \A j \in 1..Len(out) : out[j] = mask
        /\ (script = "cv" /\ cfg.OPEN_ITERS = 0 /\ cfg.CLOSE_ITERS = 0)
              => \A j \in 1..Len(out) : out[j] = mask
        /\ (script = "new" /\ cfg.MORPH_ITERS > 0 /\ cfg.DO_OPEN /\ cfg.DO_CLOSE)
              => LET n == cfg.MORPH_ITERS
                     opened == dilate_n(erode_n(mask, img.w, img.h, n), img.w, img.h, n)
                 IN  out[1] = erode_n(dilate_n(opened, img.w, img.h, n), img.w, img.h, n)
        /\ (script = "cv" /\ cfg.OPEN_ITERS > 0 /\ cfg.CLOSE_ITERS > 0)
              => LET opened == dilate_n(erode_n(mask, img.w, img.h, cfg.OPEN_ITERS),
                                        img.w, img.h, cfg.OPEN_ITERS)
                 IN  out[1] = erode_n(dilate_n(opened, img.w, img.h, cfg.CLOSE_ITERS),
                                      img.w, img.h, cfg.CLOSE_ITERS)

\* a raster cleaned with both flags set and one iteration, on which the
\* opening removed a speck that a closing applied first would have kept
C14_Witness ==
    /\ pc = "cleaned_twice"
    /\ script = "new"
    /\ cfg.DO_OPEN /\ cfg.DO_CLOSE /\ cfg.MORPH_ITERS = 1
    /\ out[1] # mask
    /\ out[1] # MutCloseBeforeOpen(cfg, mask, img.w, img.h)

\* C15: in the per-instance pipeline the masks classified so far are, each
\* once, in kept_masks or in dropped_masks, kept exactly when
\* is_background_like returned is_bg false; the export starts after the last
\* mask is classified, works on kept_masks, and every polygon comes from a
\* kept mask.
IdxOf(ms) == {ms[j].idx : j \in 1..Len(ms)}

C15_ClassifiedOnceThenExported ==
    (script = "new" /\ pc \in {"classify", "export", "simplify", "done"}
        /\ res0_masks = "array") =>
        /\ \A j \in 1..Len(kept_masks) : ~kept_masks[j].is_bg
        /\ \A j \in 1..Len(dropped_masks) : dropped_masks[j].is_bg
        /\ Len(kept_masks) + Len(dropped_masks) = loop_i - 1
        /\ IdxOf(kept_masks) \cap IdxOf(dropped_masks) = {}
        /\ IdxOf(kept_masks) \cup IdxOf(dropped_masks) = 0..(loop_i - 2)
        /\ Cardinality(IdxOf(kept_masks)) = Len(kept_masks)
        /\ Cardinality(IdxOf(dropped_masks)) = Len(dropped_masks)
        /\ (pc = "classify" => exp = NoExport)
        /\ (pc \in {"export", "simplify"} =>
               /\ loop_i = Len(masks) + 1
               /\ exp.masks01 = kept_masks)
        /\ \A j \in 1..Len(exp.polys) :
               /\ exp.polys[j].instance \in IdxOf(kept_masks)
               /\ exp.polys[j].instance \notin IdxOf(dropped_masks)
        /\ Written =>
              \A j \in 1..Len(Polygons) :
                  /\ Polygons[j].instance \in IdxOf(kept_masks)
                  /\ Polygons[j].instance \notin IdxOf(dropped_masks)

\* a written payload with a polygon, of a run that dropped one mask and
\* kept another
C15_Witness ==
    /\ script = "new"
    /\ Written
    /\ Len(dropped_masks) >= 1
    /\ Len(kept_masks) >= 1
    /\ Len(Polygons) >= 1

\* C16: when the approximation has n > MAX_POINTS points, the resampling
\* picks MAX_POINTS indices, strictly increasing, from 0 to n - 1, and the
\* result is the rounded points at those indices, its last one dropped only
\* when it equals the first; when n <= MAX_POINTS, the result is the rounded
\* approximation, its last one dropped likewise.
ResamplingIndices(n, m) ==
    LET idx == linspace_idx(n, m)
    IN  /\ Len(idx) = m
        /\ idx[1] = 0
        /\ idx[m] = n - 1
        /\ \A a \in 1..(m - 1) : idx[a] < idx[a + 1]
        /\ \A a \in 1..m : idx[a] \in 0..(n - 1)

Descending(ms) ==
    \A a \in 1..Len(ms) : \A b \in 1..Len(ms) : a < b => ms[a].area >= ms[b].area

C17_LargestFirst ==
    (script = "new" /\ pc \in {"classify", "export", "simplify", "done"}) =>
        /\ Descending(masks)
        /\ Descending(kept_masks)
        /\ Descending(exp.masks01)

\* C18 as stated: the archived FastSAM script removes the largest mask
\* exactly when its area fraction is at least DROP_LARGEST_BG_FRAC and there
\* is more than one mask, never removes another mask and never all of them;
\* the SAM2 script always removes the largest mask, and with one mask
\* exports no polygon.
MaxArea(ms) == CHOOSE a \in {ms[j].area : j \in 1..Len(ms)} :
                  \A j \in 1..Len(ms) : ms[j].area <= a

Areas(ms) == [j \in 1..Len(ms) |-> ms[j].area]

\* after is before without one of its largest masks
LargestRemoved(before, after) ==
    \E j \in 1..Len(before) :
        /\ before[j].area = MaxArea(before)
        /\ Areas(after) = [k \in 1..(Len(before) - 1) |->
                              before[IF k < j THEN k ELSE k + 1].area]

C18_LargestIsBackground ==
    /\ [][pc = "old_drop" =>
            /\ LargestRemoved(masks, masks')
                 <=> (/\ FracGeq(Frac(MaxArea(masks), img.w * img.h),
                                 cfg.DROP_LARGEST_BG_FRAC)
                      /\ Len(masks) > 1)
            /\ (masks' = masks \/ LargestRemoved(masks, masks'))
            /\ Len(masks') >= 1]_vars
    /\ [][pc = "sam2_split" =>
            /\ LargestRemoved(masks, masks')
            /\ (Len(masks) = 1 => exp'.contours = <<>>)]_vars
    /\ []((script = "sam2" /\ Done /\ res0_masks = "array" /\ masks = <<>>)
             => (Written /\ Polygons = <<>> /\ ret = <<0>>))

====
